---- MODULE Spec2Model ----
(***************************************************************************)
(* Two sibling programs of the site:                                       *)
(*   - the paneled/stacked single-page script (jQuery, document.ready):    *)
(*     checkWidths, showSection, the click handlers and addNavs;           *)
(*   - the application container InContext (React / Next router).          *)
(* Each has its own specification: Spec (panels) and AppSpec (container).  *)
(***************************************************************************)
EXTENDS Integers, Sequences, FiniteSets

\* ------------------------------------------------------------------------
\* Bounds of the model
\* ------------------------------------------------------------------------
\* most force-non-render timers pending at once
MaxTimers == 2
\* most animations queued at once, over all panels
MaxQueue == 3
\* most runs of the container's effect
MaxRuns == 3

\* ------------------------------------------------------------------------
\* Panels script: constants and environment
\* ------------------------------------------------------------------------
MOBILE_SIZE == 800

\* $(document).height()
DocHeight == 900

\* window widths delivered by the load and by resize events
Widths == {750, 800, 900}

\* the .inner-col elements of the page in document order (second class name)
Layouts == { <<"home", "about", "work">>, <<"home", "work">> }

\* $(this).outerHeight() of a panel
outerHeight(p) ==
  CASE p = "home"  -> 600
    [] p = "about" -> 450
    [] OTHER       -> 300

\* canonical resting position, top: 50%
Center == [unit |-> "%", v |-> 50]

Px(n) == [unit |-> "px", v |-> n]

VARIABLES
  sections,     \* var sections: class names pushed by addNavs, in order
  mobile,       \* var mobile
  windowWidth,  \* $(window).width()
  hidden,       \* panel has class "hidden"
  mob,          \* panel has class "mobile"
  display,      \* panel's css display: "block" or "none"
  top,          \* panel's css top
  animq,        \* panel's jQuery fx queue: targets of top not yet reached
  timers,       \* number of pending setTimeout(..., 500) callbacks
  event,        \* the handler that ran last, with its arguments
  req,          \* history: the transition requests since the last tier change
  wasActive,    \* history: panels not hidden when the layout last became Stacked
  returned,     \* history: back in Paneled with no transition request since
  info,         \* project info view .extra-info: "hidden", "open" or "closing"
  \* --- application container (InContext) ---
  page,         \* slug of the page shown (router.pathname without "/")
  rendering,    \* useState rendering
  mounted,      \* the effect of InContext is in place (not yet cleaned up)
  gen,          \* number of runs of the effect: identity of its closures
  recalcVer,    \* identity of recalculateSectionIndex, 0 when undefined
  listeners,    \* router.events: event name -> registered handlers, in order
  scrollTop,    \* scroll offset of the main element (outerRef)
  sectionIndex, \* current section index, NoIndex when the page has no sections
  nav,          \* navigation in progress in the router
  scrollEvt,    \* a scroll event of the main element awaits delivery
  hashNav,      \* history: last hash navigation, while nothing else happened
  displaySize,  \* useDisplaySize: the display tier of the viewport
  emitted       \* history: last router event emitted and the functions it called

panelVars == <<hidden, mob, display, top>>
scriptVars == <<sections, mobile, windowWidth, hidden, mob, display, top, animq,
                timers, event, req, wasActive, returned, info>>
appVars == <<page, rendering, mounted, gen, recalcVer, listeners, scrollTop,
             sectionIndex, nav, scrollEvt, hashNav, displaySize, emitted>>
vars == <<scriptVars, appVars>>

Range(s) == {s[i] : i \in 1..Len(s)}

\* the .inner-col elements, by their section class
Cols == Range(sections)

\* class attribute of a panel as written in the page
ColClass(name) == <<"inner-col", name>>

\* class attribute of the nav item for section q inside panel p's nav
NavClass(p, q) ==
  <<"nav-item", q>> \o (IF q = p THEN <<"active">> ELSE <<>>)

\* sections after addNavs has pushed className for every .inner-col
addNavs(dom) == [i \in 1..Len(dom) |-> ColClass(dom[i])[2]]

\* Array.prototype.indexOf, 0-based, -1 when absent
RECURSIVE indexFrom(_, _, _)
indexFrom(arr, x, i) ==
  IF i > Len(arr) THEN -1
  ELSE IF arr[i] = x THEN i - 1
  ELSE indexFrom(arr, x, i + 1)

indexOf(arr, x) == indexFrom(arr, x, 1)

NoEvent == [op |-> "load", from |-> "", to |-> "", dir |-> ""]
NoReq == [to |-> "", prev |-> "", overlap |-> FALSE]

\* ------------------------------------------------------------------------
\* checkWidths
\* ------------------------------------------------------------------------
\* branch taken by checkWidths for a width
toMobileStrict(w) == w < MOBILE_SIZE /\ ~mobile
toMobile(w) == w <= MOBILE_SIZE /\ ~mobile
toFullAlways(w) == w > MOBILE_SIZE
toFull(w) == w > MOBILE_SIZE /\ mobile

\* classes and styles after the full-size branch, lines 157-162
hiddenFullAll == [p \in Cols |-> TRUE]
hiddenFull == [p \in Cols |-> IF p # "home" THEN TRUE ELSE hidden[p]]
displayFull == [p \in Cols |-> IF p # "home" THEN "none" ELSE display[p]]
topFull == [p \in Cols |-> IF p = "home" THEN Center ELSE top[p]]

\* css display after the mobile branch, line 150
displayMobileKeep == display
displayMobile == [p \in Cols |-> "block"]

checkWidths(w) ==
  IF toMobile(w) THEN
    /\ mobile' = TRUE
    /\ hidden' = [p \in Cols |-> FALSE]
    /\ mob' = [p \in Cols |-> TRUE]
    /\ display' = displayMobile
    /\ top' = top
  ELSE IF toFull(w) THEN
    /\ mobile' = FALSE
    /\ hidden' = hiddenFull
    /\ mob' = [p \in Cols |-> FALSE]
    /\ display' = displayFull
    /\ top' = topFull
  ELSE
    /\ UNCHANGED mobile
    /\ UNCHANGED panelVars

\* ------------------------------------------------------------------------
\* showSection
\* ------------------------------------------------------------------------
\* colHeight/1.5
TwoThirds(h) == (2 * h) \div 3

\* step 1: where an outgoing panel is sent
outMoveSwapped(p, dir) ==
  IF dir = "up" THEN Px(0 - TwoThirds(outerHeight(p)))
  ELSE Px(DocHeight + TwoThirds(outerHeight(p)))
outMove(p, dir) ==
  IF dir = "up" THEN Px(DocHeight + TwoThirds(outerHeight(p)))
  ELSE Px(0 - TwoThirds(outerHeight(p)))

\* step 4: where an incoming panel is placed before it animates in
inMove(p, dir) ==
  IF dir = "up" THEN Px(0 - TwoThirds(outerHeight(p)))
  ELSE Px(DocHeight + TwoThirds(outerHeight(p)))

\* $('.inner-col').not('.hidden') at line 190
outgoing == {p \in Cols : ~hidden[p]}

\* the guard "only for non-mobile", line 187
fullSizeAlways == TRUE
fullSize == ~mobile

\* hidden classes after lines 190-199
hiddenAfterKeep(sectionName) ==
  [p \in Cols |-> IF p = sectionName THEN FALSE ELSE hidden[p]]
hiddenAfter(sectionName) ==
  [p \in Cols |-> IF p = sectionName THEN FALSE ELSE TRUE]

\* $('.inner-col').not('.hidden') at line 205
incoming(sectionName) == {p \in Cols : ~hiddenAfter(sectionName)[p]}

\* fx queues after lines 197 and 213
queuesAfter(sectionName, dir) ==
  [p \in Cols |->
     LET q1 == IF p \in outgoing THEN Append(animq[p], outMove(p, dir))
               ELSE animq[p]
     IN IF p \in incoming(sectionName) THEN Append(q1, Center) ELSE q1]

\* number of animations in the fx queues q
queued(q) ==
  LET n(p) == IF p \in Cols THEN Len(q[p]) ELSE 0
  IN n("home") + n("about") + n("work")

\* the model's cap on pending timers and queued animations
showFits(sectionName, dir) ==
  ~fullSize \/ ( /\ timers < MaxTimers
              /\ queued(queuesAfter(sectionName, dir)) <= MaxQueue )

\* css display after line 212
displayAfterNone(sectionName) == display
displayAfterEager(sectionName) ==
  [p \in Cols |-> IF p \in incoming(sectionName) THEN "block" ELSE "none"]
displayAfter(sectionName) ==
  [p \in Cols |-> IF p \in incoming(sectionName) THEN "block" ELSE display[p]]

showSection(sectionName, dir) ==
  IF fullSize THEN
    /\ hidden' = hiddenAfter(sectionName)
    /\ animq' = queuesAfter(sectionName, dir)
    /\ timers' = timers + 1
    /\ top' = [p \in Cols |->
                 IF p \in incoming(sectionName) THEN inMove(p, dir) ELSE top[p]]
    /\ display' = displayAfter(sectionName)
    /\ mob' = mob
  ELSE
    /\ UNCHANGED panelVars
    /\ UNCHANGED <<animq, timers>>

\* history of the requests made in Paneled mode
reqAfter(sectionName) ==
  IF mobile THEN req
  ELSE [to |-> sectionName,
        prev |-> IF timers > 0 THEN req.to ELSE "",
        overlap |-> timers > 0]

\* a panel the user can click in: rendered, and on screen or still moving
Clickable(p) ==
  /\ p \in Cols
  /\ display[p] = "block"
  /\ (mob[p] \/ top[p] = Center \/ animq[p] # <<>>)

\* ------------------------------------------------------------------------
\* Application container: InContext, Screen, the router's events
\* ------------------------------------------------------------------------
Pages == {"index", "about", "blog"}

\* scroll offsets the user can scroll the main element to
Offsets == {0, 750, 800, 2000}

\* section starting heights held by the context, per page slug
registry == [about |-> <<0, 800, 1600>>]

\* state?.[slug] || []
sectionHeights(slug) ==
  IF slug \in DOMAIN registry THEN registry[slug] ELSE <<>>

\* "no sections": the index is undefined
NoIndex == -1

\* the section index for an offset: the greatest index whose start is at or
\* before the offset, 0 before the first start, undefined without sections
resolve(heights, offset) ==
  IF Len(heights) = 0 THEN NoIndex
  ELSE LET S == {i \in 1..Len(heights) : heights[i] <= offset}
       IN IF S = {} THEN 0
          ELSE (CHOOSE i \in S : \A j \in S : j <= i) - 1

RouterEvents ==
  {"routeChangeStart", "routeChangeComplete", "routeChangeError",
   "hashChangeStart"}

NoListeners == [e \in RouterEvents |-> <<>>]

Handler(fn, id) == [fn |-> fn, id |-> id]

\* router.events.on: append the handler
on(ls, evt, h) == [ls EXCEPT ![evt] = Append(@, h)]

\* router.events.off: remove the first registration of the handler, if any
RECURSIVE without(_, _)
without(q, h) ==
  IF q = <<>> THEN <<>>
  ELSE IF Head(q) = h THEN Tail(q)
  ELSE <<Head(q)>> \o without(Tail(q), h)

off(ls, evt, h) == [ls EXCEPT ![evt] = without(@, h)]

\* the functions router.events.emit(evt) calls
called(evt) == {listeners[evt][i].fn : i \in 1..Len(listeners[evt])}

\* body of the effect, lines 66-101, for closures g and callback version rv
effectRun(ls, g, rv) ==
  LET l1 == on(ls, "routeChangeStart", Handler("onRouteStart", g))
      l2 == on(l1, "routeChangeComplete", Handler("onRouteCompleteScroll", g))
  IN IF rv # 0 THEN on(l2, "hashChangeStart", Handler("recalculateSectionIndex", rv))
     ELSE l2

\* the effect's clean up, lines 104-106: every removeEventListenerFns entry
effectCleanupPartial(ls, g, rv) ==
  off(off(ls, "routeChangeStart", Handler("onRouteStart", g)),
      "routeChangeComplete", Handler("onRouteCompleteScroll", g))
effectCleanup(ls, g, rv) ==
  LET l1 == IF rv # 0
            THEN off(ls, "hashChangeStart", Handler("recalculateSectionIndex", rv))
            ELSE ls
      l2 == off(l1, "routeChangeStart", Handler("onRouteStart", g))
  IN off(l2, "routeChangeComplete", Handler("onRouteCompleteScroll", g))

\* what the body of a handler calls, lines 70-76 and the hook's callback
handlerCalls(fn) ==
  CASE fn = "onRouteStart" -> {"setRendering"}
    [] fn = "onRouteCompleteScroll" -> {"scrollTo", "setRendering"}
    [] OTHER -> {"recalculateSectionIndex"}

\* record of router.events.emit(evt): the registered functions it calls and
\* what their bodies call
emit(evt) ==
  [evt |-> evt, fns |-> called(evt),
   calls |-> UNION {handlerCalls(fn) : fn \in called(evt)}]
NoEmit == [evt |-> "", fns |-> {}, calls |-> {}]

\* onRouteStart: setRendering(true)
onRouteStartKeep(r) == r
onRouteStart(r) == TRUE

\* onRouteCompleteScroll: scrollTo({ top: 0 }) and setRendering(false)
onRouteCompleteScroll(st, r) == [scrollTop |-> 0, rendering |-> FALSE]

\* the display tiers of useDisplaySize
Tiers == {"compact", "medium", "full"}

\* the ContentSections of a page (getSectionsForPage)
getSectionsForPage(slug) ==
  IF slug = "about" THEN <<"intro", "skills", "history">> ELSE <<>>

\* the side menu is shown on the full tier only
shouldShowSideNavMenu(size) == size = "full"

\* InContext passes contentSections only when sections.length is not 0
contentSectionsAlways(slug) == TRUE
contentSections(slug) == Len(getSectionsForPage(slug)) # 0

\* InContext renders Screen on every page but the index
isIndex == page = "index"

\* Screen renders SideNavMenu: contentSections && shouldShowSideNav
sideNavShown ==
  ~isIndex /\ contentSections(page) /\ shouldShowSideNavMenu(displaySize)

\* the section indicator SideNavMenu marks active, NoIndex when none is
activeSectionIndex == IF sideNavShown THEN sectionIndex ELSE NoIndex

\* class of the main element: scrollable-y unless rendering
mainScrollable == ~rendering

NavIdle == [kind |-> "idle", phase |-> "", to |-> "", target |-> NoIndex]
NoHash == [target |-> NoIndex, recalc |-> FALSE]

\* the container is not in use (panels script alone)
AppIdle ==
  /\ page = "index"
  /\ rendering = FALSE
  /\ mounted = FALSE
  /\ gen = 0
  /\ recalcVer = 0
  /\ listeners = NoListeners
  /\ scrollTop = 0
  /\ sectionIndex = NoIndex
  /\ nav = NavIdle
  /\ scrollEvt = FALSE
  /\ hashNav = NoHash
  /\ displaySize = "full"
  /\ emitted = NoEmit

\* the panels script is not in use (container alone)
ScriptIdle ==
  /\ sections = <<>>
  /\ mobile = FALSE
  /\ windowWidth = 0
  /\ hidden = <<>>
  /\ mob = <<>>
  /\ display = <<>>
  /\ top = <<>>
  /\ animq = <<>>
  /\ timers = 0
  /\ event = NoEvent
  /\ req = NoReq
  /\ wasActive = {}
  /\ returned = FALSE
  /\ info = "hidden"

\* state once InContext has rendered and its effect has run
AppInit ==
  /\ ScriptIdle
  /\ page \in Pages
  /\ rendering = FALSE
  /\ mounted = TRUE
  /\ gen = 1
  /\ recalcVer \in {0, 1}
  /\ listeners = effectRun(NoListeners, gen, recalcVer)
  /\ scrollTop = 0
  /\ sectionIndex = resolve(sectionHeights(page), scrollTop)
  /\ nav = NavIdle
  /\ scrollEvt = FALSE
  /\ hashNav = NoHash
  /\ displaySize \in Tiers
  /\ emitted = NoEmit

\* the effect runs again because recalculateSectionIndex changed (line 107)
EffectRerun(v) ==
  /\ mounted
  /\ gen < MaxRuns
  /\ v # recalcVer
  /\ nav = NavIdle
  /\ recalcVer' = v
  /\ gen' = gen + 1
  /\ listeners' = effectRun(effectCleanup(listeners, gen, recalcVer), gen + 1, v)
  /\ UNCHANGED <<page, rendering, mounted, scrollTop, sectionIndex, nav,
                 scrollEvt, hashNav>>
  /\ UNCHANGED <<scriptVars, displaySize, emitted>>

\* InContext unmounts: the effect's clean up runs
Unmount ==
  /\ mounted
  /\ nav = NavIdle
  /\ mounted' = FALSE
  /\ listeners' = effectCleanup(listeners, gen, recalcVer)
  /\ UNCHANGED <<page, rendering, gen, recalcVer, scrollTop, sectionIndex, nav,
                 scrollEvt, hashNav>>
  /\ UNCHANGED <<scriptVars, displaySize, emitted>>

\* the router starts a navigation to another page: emits routeChangeStart
RouteStart(p) ==
  /\ nav = NavIdle
  /\ p # page
  /\ nav' = [kind |-> "route", phase |-> "started", to |-> p, target |-> NoIndex]
  /\ rendering' = IF "onRouteStart" \in called("routeChangeStart")
                  THEN onRouteStart(rendering) ELSE rendering
  /\ hashNav' = NoHash
  /\ UNCHANGED <<page, mounted, gen, recalcVer, listeners, scrollTop,
                 sectionIndex, scrollEvt>>
  /\ emitted' = emit("routeChangeStart")
  /\ UNCHANGED <<scriptVars, displaySize>>

\* the navigation finishes: the page is shown, routeChangeComplete is emitted
RouteComplete ==
  /\ nav.kind = "route"
  /\ page' = nav.to
  /\ nav' = NavIdle
  /\ IF "onRouteCompleteScroll" \in called("routeChangeComplete")
     THEN /\ scrollTop' = onRouteCompleteScroll(scrollTop, rendering).scrollTop
          /\ rendering' = onRouteCompleteScroll(scrollTop, rendering).rendering
     ELSE scrollTop' = (IF nav.to = "index" THEN 0 ELSE scrollTop)
          /\ rendering' = rendering
  /\ sectionIndex' = resolve(sectionHeights(nav.to), scrollTop')
  /\ scrollEvt' = FALSE
  /\ UNCHANGED <<mounted, gen, recalcVer, listeners, hashNav>>
  /\ emitted' = emit("routeChangeComplete")
  /\ UNCHANGED <<scriptVars, displaySize>>

\* the navigation is aborted or fails: routeChangeError is emitted
RouteError ==
  /\ nav.kind = "route"
  /\ nav' = NavIdle
  /\ rendering' = IF "onRouteCompleteScroll" \in called("routeChangeError")
                  THEN FALSE ELSE rendering
  /\ UNCHANGED <<page, mounted, gen, recalcVer, listeners, scrollTop,
                 sectionIndex, scrollEvt, hashNav>>
  /\ emitted' = emit("routeChangeError")
  /\ UNCHANGED <<scriptVars, displaySize>>

\* a same-page hash link to section i is followed: hashChangeStart is emitted
HashStart(i) ==
  /\ nav = NavIdle
  /\ i \in 0..(Len(sectionHeights(page)) - 1)
  /\ nav' = [kind |-> "hash", phase |-> "started", to |-> page, target |-> i]
  /\ sectionIndex' = IF "recalculateSectionIndex" \in called("hashChangeStart")
                     THEN resolve(sectionHeights(page), scrollTop)
                     ELSE sectionIndex
  /\ hashNav' = [target |-> i,
                 recalc |-> "recalculateSectionIndex" \in called("hashChangeStart")]
  /\ UNCHANGED <<page, rendering, mounted, gen, recalcVer, listeners, scrollTop,
                 scrollEvt>>
  /\ emitted' = emit("hashChangeStart")
  /\ UNCHANGED <<scriptVars, displaySize>>

\* the router scrolls the anchor of the target section into view
HashScroll ==
  /\ nav.kind = "hash" /\ nav.phase = "started"
  /\ scrollTop' = sectionHeights(page)[nav.target + 1]
  /\ scrollEvt' = (scrollEvt \/ scrollTop' # scrollTop)
  /\ nav' = [nav EXCEPT !.phase = "scrolled"]
  /\ UNCHANGED <<page, rendering, mounted, gen, recalcVer, listeners,
                 sectionIndex, hashNav>>
  /\ UNCHANGED <<scriptVars, displaySize, emitted>>

\* the hash navigation finishes
HashComplete ==
  /\ nav.kind = "hash" /\ nav.phase = "scrolled"
  /\ nav' = NavIdle
  /\ UNCHANGED <<page, rendering, mounted, gen, recalcVer, listeners, scrollTop,
                 sectionIndex, scrollEvt, hashNav>>
  /\ UNCHANGED <<scriptVars, displaySize, emitted>>

\* the pending scroll event is delivered: the index follows the offset
ScrollDelivered ==
  /\ scrollEvt
  /\ nav = NavIdle
  /\ scrollEvt' = FALSE
  /\ sectionIndex' = resolve(sectionHeights(page), scrollTop)
  /\ hashNav' = NoHash
  /\ UNCHANGED <<page, rendering, mounted, gen, recalcVer, listeners, scrollTop,
                 nav>>
  /\ UNCHANGED <<scriptVars, displaySize, emitted>>

\* the browser fires no scroll event for the programmatic scroll
ScrollLost ==
  /\ scrollEvt
  /\ nav = NavIdle
  /\ scrollEvt' = FALSE
  /\ UNCHANGED <<page, rendering, mounted, gen, recalcVer, listeners, scrollTop,
                 sectionIndex, nav, hashNav>>
  /\ UNCHANGED <<scriptVars, displaySize, emitted>>

\* the user scrolls the main element (scrollable-y only when not rendering)
UserScroll(o) ==
  /\ nav = NavIdle
  /\ page # "index"
  /\ ~rendering
  /\ o # scrollTop
  /\ scrollTop' = o
  /\ sectionIndex' = resolve(sectionHeights(page), o)
  /\ scrollEvt' = FALSE
  /\ hashNav' = NoHash
  /\ UNCHANGED <<page, rendering, mounted, gen, recalcVer, listeners, nav>>
  /\ UNCHANGED <<scriptVars, displaySize, emitted>>

\* the viewport changes its display tier
DisplayResize(t) ==
  /\ t # displaySize
  /\ displaySize' = t
  /\ UNCHANGED <<page, rendering, mounted, gen, recalcVer, listeners, scrollTop,
                 sectionIndex, nav, scrollEvt, hashNav, emitted>>
  /\ UNCHANGED scriptVars

AppNext ==
  \/ \E t \in Tiers : DisplayResize(t)
  \/ \E v \in 0..MaxRuns : EffectRerun(v)
  \/ Unmount
  \/ \E p \in Pages : RouteStart(p)
  \/ RouteComplete
  \/ RouteError
  \/ \E i \in 0..2 : HashStart(i)
  \/ HashScroll
  \/ HashComplete
  \/ ScrollDelivered
  \/ ScrollLost
  \/ \E o \in Offsets : UserScroll(o)

AppSpec == AppInit /\ [][AppNext]_vars

\* the router ends every navigation it started: routeChangeStart is followed
\* by routeChangeComplete or routeChangeError, hashChangeStart by the scroll
\* and hashChangeComplete; nothing obliges the user to navigate again
RouterFairness ==
  /\ WF_vars(RouteComplete \/ RouteError)
  /\ WF_vars(HashScroll)
  /\ WF_vars(HashComplete)

AppFairSpec == AppInit /\ [][AppNext]_vars /\ RouterFairness

\* ------------------------------------------------------------------------
\* Actions of the panels script
\* ------------------------------------------------------------------------
\* state once the document.ready function has run (addNavs, checkWidths)
Init ==
  /\ sections \in {addNavs(dom) : dom \in Layouts}
  /\ windowWidth \in Widths
  /\ mobile = (windowWidth <= MOBILE_SIZE)
  /\ hidden = [p \in Cols |-> ~mobile /\ p # "home"]
  /\ mob = [p \in Cols |-> mobile]
  /\ display = [p \in Cols |-> IF mobile \/ p = "home" THEN "block" ELSE "none"]
  /\ top = [p \in Cols |-> Center]
  /\ animq = [p \in Cols |-> <<>>]
  /\ timers = 0
  /\ event = NoEvent
  /\ req = NoReq
  /\ wasActive = {}
  /\ returned = FALSE
  /\ info = "hidden"
  /\ AppIdle

\* $(window).resize handler
Resize(w) ==
  /\ windowWidth' = w
  /\ checkWidths(w)
  /\ event' = [op |-> "resize", from |-> "", to |-> "", dir |-> ""]
  /\ req' = IF toMobile(w) \/ toFull(w) THEN NoReq ELSE req
  /\ wasActive' = IF toMobile(w) THEN outgoing ELSE wasActive
  /\ returned' = IF toFull(w) THEN TRUE ELSE IF toMobile(w) THEN FALSE ELSE returned
  /\ UNCHANGED <<sections, animq, timers, info>>
  /\ UNCHANGED appVars

\* $('#intro h3').click handler
IntroClick ==
  /\ Clickable("home")
  /\ showFits("about", "down")
  /\ showSection("about", "down")
  /\ event' = [op |-> "intro", from |-> "", to |-> "about", dir |-> "down"]
  /\ req' = reqAfter("about")
  /\ returned' = FALSE
  /\ UNCHANGED <<sections, mobile, windowWidth, wasActive, info>>
  /\ UNCHANGED appVars

\* toggleInfo(dir): the class hidden is toggled at once, the view animates
toggleInfo(dir) == IF dir = "out" THEN "open" ELSE "closing"

\* the projects script's nav-item click handler: close an open info view
closeIfOpen == IF info = "open" THEN toggleInfo("in") ELSE info

\* click on a project card of the work panel: open the info view
CardClick ==
  /\ Clickable("work")
  /\ info = "hidden"
  /\ info' = toggleInfo("out")
  /\ event' = [op |-> "info", from |-> "", to |-> "", dir |-> ""]
  /\ UNCHANGED <<sections, mobile, windowWidth, hidden, mob, display, top, animq,
                 timers, req, wasActive, returned>>
  /\ UNCHANGED appVars

\* click on the info view's exit mark
ExitClick ==
  /\ info = "open"
  /\ info' = toggleInfo("in")
  /\ event' = [op |-> "info", from |-> "", to |-> "", dir |-> ""]
  /\ UNCHANGED <<sections, mobile, windowWidth, hidden, mob, display, top, animq,
                 timers, req, wasActive, returned>>
  /\ UNCHANGED appVars

\* the closing animation of the info view ends
InfoClosed ==
  /\ info = "closing"
  /\ info' = "hidden"
  /\ event' = [op |-> "info", from |-> "", to |-> "", dir |-> ""]
  /\ UNCHANGED <<sections, mobile, windowWidth, hidden, mob, display, top, animq,
                 timers, req, wasActive, returned>>
  /\ UNCHANGED appVars

\* direction computed by the nav-item click handler, lines 223-229
navDirFlipped(p, q) ==
  IF indexOf(sections, NavClass(p, p)[2]) < indexOf(sections, NavClass(p, q)[2])
  THEN "up" ELSE "down"
navDir(p, q) ==
  LET selSection == NavClass(p, q)[2]
      currSection == NavClass(p, p)[2]
  IN IF indexOf(sections, currSection) > indexOf(sections, selSection)
     THEN "up" ELSE "down"

\* $('.nav-item').not('.active').click handler: item q of panel p's nav
NavClick(p, q) ==
  /\ Clickable(p)
  /\ q \in Cols
  /\ "active" \notin Range(NavClass(p, q))
  /\ showFits(NavClass(p, q)[2], navDir(p, q))
  /\ showSection(NavClass(p, q)[2], navDir(p, q))
  /\ event' = [op |-> "nav", from |-> p, to |-> q, dir |-> navDir(p, q)]
  /\ req' = reqAfter(NavClass(p, q)[2])
  /\ returned' = FALSE
  /\ info' = closeIfOpen
  /\ UNCHANGED <<sections, mobile, windowWidth, wasActive>>
  /\ UNCHANGED appVars

\* css display after $('.inner-col.hidden').each(... 'display', 'none')
timerDisplayAll == [p \in Cols |-> "none"]
timerDisplay == [p \in Cols |-> IF hidden[p] THEN "none" ELSE display[p]]

\* the callback of setTimeout(..., 500), lines 200-204
TimerFire ==
  /\ timers > 0
  /\ timers' = timers - 1
  /\ display' = timerDisplay
  /\ event' = [op |-> "timer", from |-> "", to |-> "", dir |-> ""]
  /\ UNCHANGED <<sections, mobile, windowWidth, hidden, mob, top, animq,
                 req, wasActive, returned, info>>
  /\ UNCHANGED appVars

\* the running animation of panel p reaches its target
AnimDone(p) ==
  /\ p \in Cols
  /\ animq[p] # <<>>
  /\ top' = [top EXCEPT ![p] = Head(animq[p])]
  /\ animq' = [animq EXCEPT ![p] = Tail(animq[p])]
  /\ event' = [op |-> "anim", from |-> p, to |-> "", dir |-> ""]
  /\ UNCHANGED <<sections, mobile, windowWidth, hidden, mob, display, timers,
                 req, wasActive, returned, info>>
  /\ UNCHANGED appVars

AllNames == {"home", "about", "work"}

Next ==
  \/ \E w \in Widths : Resize(w)
  \/ IntroClick
  \/ \E p \in AllNames, q \in AllNames : NavClick(p, q)
  \/ TimerFire
  \/ \E p \in AllNames : AnimDone(p)

Spec == Init /\ [][Next]_vars

\* the page with the projects script loaded as well
ProjectsNext ==
  \/ \E w \in Widths : Resize(w)
  \/ IntroClick
  \/ \E p \in AllNames, q \in AllNames : NavClick(p, q)
  \/ TimerFire
  \/ \E p \in AllNames : AnimDone(p)
  \/ CardClick
  \/ ExitClick
  \/ InfoClosed

ProjectsSpec == Init /\ [][ProjectsNext]_vars

TypeOK ==
  /\ mobile \in BOOLEAN
  /\ timers \in 0..MaxTimers
  /\ \A p \in Cols : hidden[p] \in BOOLEAN /\ display[p] \in {"block", "none"}

\* ------------------------------------------------------------------------
\* Properties of the panels script
\* ------------------------------------------------------------------------
\* position of a section in the registered order
Order(s) == CHOOSE i \in 1..Len(sections) : sections[i] = s

\* s is the only panel that is not hidden, and the only rendered one
OnlyVisible(s) ==
  \A p \in Cols : /\ (hidden[p] <=> (p # s))
                   /\ ((display[p] = "block") <=> (p = s))

isRequest(e) == e.op \in {"nav", "intro"}

\* C1: in Paneled mode, when a request for an existing section B was issued
\* while an earlier request's force-non-render timer was pending, then once
\* every pending timer has fired B is the only visible and rendered section.
LastRequestWins ==
  (~mobile /\ req.overlap /\ req.to \in Cols /\ timers = 0) => OnlyVisible(req.to)

LastRequestWinsWitness ==
  /\ ~mobile /\ req.overlap /\ timers = 0
  /\ req.to \in Cols /\ req.prev \in Cols /\ req.prev # req.to
  /\ OnlyVisible(req.to)

\* C2: at every moment at most one force-non-render timer is pending.
AtMostOneTimer == timers <= 1

\* C3: in Paneled mode, after a request for an existing section B issued with
\* no timer pending, once its timer has fired B is the only visible and
\* rendered section and every other section is hidden and non-rendered.
CompletedTransition ==
  (~mobile /\ ~req.overlap /\ req.to \in Cols /\ timers = 0) => OnlyVisible(req.to)

CompletedTransitionWitness ==
  /\ ~mobile /\ ~req.overlap /\ timers = 0 /\ event.op = "timer"
  /\ req.to = "work" /\ OnlyVisible("work")

\* C5: a resize event changes the state flag exactly when the width is on the
\* other side of MOBILE_SIZE than the current state; otherwise it changes
\* neither the flag nor any panel's hidden flag, classes, rendering or position.
ResizeOnlyOnCrossing ==
  [][event'.op = "resize" =>
       IF (windowWidth' <= MOBILE_SIZE) = mobile
       THEN UNCHANGED <<mobile, hidden, mob, display, top>>
       ELSE mobile' = ~mobile]_vars

ResizeOnlyOnCrossingWitness ==
  /\ event.op = "resize" /\ windowWidth = 900 /\ ~mobile
  /\ req.to = "about" /\ "about" \in Cols /\ ~hidden["about"] /\ timers > 0

\* a resize step that takes the layout from Stacked to Paneled
ReturnStep == event'.op = "resize" /\ mobile /\ ~mobile'

\* C6 as claimed: after Stacked to Paneled the visible section is the one
\* that was active before the layout became Stacked.
ReturnKeepsActive ==
  [][(ReturnStep /\ wasActive # {}) =>
       {p \in Cols : ~hidden'[p]} = wasActive]_vars

\* C6 amended: after Stacked to Paneled every non-home section is hidden and
\* non-rendered and the home section is the visible, rendered one, whichever
\* section was active before.
ReturnShowsHome ==
  [][ReturnStep =>
       \A p \in Cols : /\ (hidden'[p] <=> (p # "home"))
                        /\ ((display'[p] = "block") <=> (p = "home"))]_vars

ReturnShowsHomeWitness ==
  /\ event.op = "resize" /\ returned /\ wasActive = {"about"}
  /\ OnlyVisible("home")

\* C7: after a return from Stacked to Paneled the home section is at its
\* anchored center position, without the mobile class, until the next
\* transition request.
HomeAnchoredAfterReturn ==
  returned => (top["home"] = Center /\ ~mob["home"])

\* C8: a transition request made while the layout is Stacked changes no
\* panel's hidden flag, classes, rendering or position, queues no animation
\* and schedules no timer.
StackedRequestNoOp ==
  [][(isRequest(event') /\ mobile) =>
       UNCHANGED <<hidden, mob, display, top, animq, timers>>]_vars

StackedRequestNoOpWitness ==
  mobile /\ event.op = "nav" /\ event.dir = "up" /\ event.to = "home"

\* C9: the direction of a nav click is "down" (toward end) when the clicked
\* section comes after the panel's own section in the registered order and
\* "up" (toward start) when it comes before it.
DirectionFromOrder ==
  event.op = "nav" =>
    /\ Order(event.to) > Order(event.from) => event.dir = "down"
    /\ Order(event.to) < Order(event.from) => event.dir = "up"

DirectionFromOrderWitness ==
  ~mobile /\ event.op = "nav" /\ event.from = "work" /\ event.to = "about"
          /\ event.dir = "up"

\* C10: a transition request whose target is currently visible (not hidden)
\* changes no panel, queues no animation and schedules no timer.
SelfRequestNoOp ==
  [][(isRequest(event') /\ event'.to \in Cols /\ ~hidden[event'.to]) =>
       UNCHANGED <<hidden, mob, display, top, animq, timers>>]_vars

\* C11 as claimed: a transition request that runs in Paneled mode leaves the
\* project info view fully closed: no transition step runs while the view is
\* open or still closing.
DeferUntilClosed ==
  [][(isRequest(event') /\ ~mobile) => info' = "hidden"]_vars

\* C12 as claimed: a transition request naming a section that is not in the
\* section list leaves the hidden flag and the rendering of every panel as
\* they were.
AbsentTargetNoOp ==
  [][(isRequest(event') /\ event'.to \notin Cols) =>
       UNCHANGED <<hidden, display>>]_vars

Last(q) == q[Len(q)]

\* offsets beyond the bottom edge and above the top edge for a panel
Below(p) == Px(DocHeight + (2 * outerHeight(p)) \div 3)
Above(p) == Px(0 - (2 * outerHeight(p)) \div 3)

\* a step in which showSection runs its body
ShowStep == isRequest(event') /\ ~mobile

\* C15 as claimed: toward end ("down") sends every outgoing panel beyond the
\* bottom edge, toward start ("up") above the top edge.
OutgoingAsClaimed ==
  [][ShowStep =>
       \A p \in outgoing \ incoming(event'.to) :
          Last(animq'[p]) = IF event'.dir = "down" THEN Below(p) ELSE Above(p)]_vars

\* C15 amended: toward start ("up") sends every outgoing panel beyond the
\* bottom edge and toward end ("down") above the top edge; every incoming
\* panel is placed on the opposite side and then animates to the center.
OffScreenSides ==
  [][ShowStep =>
       /\ \A p \in outgoing \ incoming(event'.to) :
            Last(animq'[p]) = IF event'.dir = "up" THEN Below(p) ELSE Above(p)
       /\ \A p \in incoming(event'.to) :
            /\ top'[p] = IF event'.dir = "up" THEN Above(p) ELSE Below(p)
            /\ Last(animq'[p]) = Center]_vars

OffScreenSidesWitness ==
  /\ ~mobile /\ event.op = "nav" /\ event.dir = "up"
  /\ top[event.to] = Above(event.to)
  /\ animq[event.to] = <<Center>>
  /\ animq[event.from] = <<Below(event.from)>>

\* C16 as claimed: the incoming panel is made render-visible only after the
\* hidden panels were forced non-rendered, so while the requested section is
\* visible and rendered no hidden panel is still rendered.
StagedAsClaimed ==
  (~mobile /\ req.to \in Cols /\ ~hidden[req.to] /\ display[req.to] = "block") =>
     \A p \in Cols : hidden[p] => display[p] = "none"

\* C16 amended: the request itself marks the outgoing panels hidden and sends
\* them off-screen, leaving them rendered, and makes the incoming panels
\* render-visible and animates them in; only the timer that the request
\* schedules forces the hidden panels non-rendered.
StagedOrder ==
  [][/\ ShowStep =>
          /\ \A p \in outgoing \ incoming(event'.to) :
               /\ hidden'[p]
               /\ Last(animq'[p]) \in {Below(p), Above(p)}
               /\ display'[p] = display[p]
          /\ \A p \in incoming(event'.to) :
               ~hidden'[p] /\ display'[p] = "block" /\ Last(animq'[p]) = Center
          /\ timers' = timers + 1
     /\ event'.op = "timer" =>
          /\ timers' = timers - 1
          /\ \A p \in Cols :
               display'[p] = IF hidden[p] THEN "none" ELSE display[p]]_vars

StagedOrderWitness ==
  /\ ~mobile /\ isRequest(event) /\ timers = 1 /\ req.to \in Cols
  /\ ~hidden[req.to] /\ display[req.to] = "block" /\ animq[req.to] = <<Center>>
  /\ \E p \in Cols : hidden[p] /\ display[p] = "block" /\ animq[p] # <<>>

\* C18: whenever the layout is Stacked every section is visible (not hidden)
\* and rendered, also after a timer scheduled in Paneled mode has fired.
StackedAllVisible ==
  mobile => \A p \in Cols : ~hidden[p] /\ display[p] = "block"

StackedAllVisibleWitness ==
  /\ mobile /\ event.op = "timer" /\ wasActive # {} /\ Cardinality(Cols) = 3
  /\ \A p \in Cols : ~hidden[p] /\ display[p] = "block"

\* C19: a force-non-render timer leaves the rendering of every panel that is
\* not hidden when it fires as it was, and un-renders the hidden ones.
TimerOnlyHidden ==
  [][event'.op = "timer" =>
       \A p \in Cols :
          display'[p] = IF hidden[p] THEN "none" ELSE display[p]]_vars

TimerOnlyHiddenWitness ==
  /\ ~mobile /\ event.op = "timer" /\ timers = 1 /\ req.overlap
  /\ req.to \in Cols /\ req.prev \in Cols /\ req.prev # req.to
  /\ ~hidden[req.to] /\ display[req.to] = "block"
  /\ display[req.prev] = "none"

\* C20: the stacked-layout flag is true exactly when the last observed window
\* width is at most MOBILE_SIZE.
FlagMatchesWidth == mobile <=> (windowWidth <= MOBILE_SIZE)

FlagMatchesWidthWitness ==
  /\ event.op = "resize" /\ windowWidth = MOBILE_SIZE /\ mobile
  /\ wasActive # {}

\* ------------------------------------------------------------------------
\* Properties of the application container
\* ------------------------------------------------------------------------
\* C4: after a finished hash navigation to a section, for which the hooked
\* recalculation was invoked and no scroll event fired, the current section
\* index is the target section's order.
HashNavIndex ==
  (nav = NavIdle /\ hashNav.recalc /\ ~scrollEvt) =>
     sectionIndex = hashNav.target

\* C13: once the effect's clean up has run for good, no handler is registered
\* for any router event, and across effect re-runs every router event has at
\* most one handler of the container registered.
TeardownRemovesAll ==
  /\ ~mounted => \A e \in RouterEvents : listeners[e] = <<>>
  /\ \A e \in RouterEvents : Len(listeners[e]) <= 1

TeardownRemovesAllWitness ==
  ~mounted /\ gen >= 2 /\ recalcVer # 0 /\ listeners = NoListeners

\* C14: a page id unknown to the context has an empty list of section
\* heights, and on a page whose section list is empty no section navigation
\* is rendered and no section indicator is marked active, at every tier.
NoSectionsDistinct ==
  /\ page \notin DOMAIN registry => sectionHeights(page) = <<>>
  /\ Len(getSectionsForPage(page)) = 0 =>
       (~sideNavShown /\ activeSectionIndex = NoIndex)

NoSectionsDistinctWitness ==
  /\ page = "blog" /\ nav = NavIdle /\ displaySize = "full"
  /\ emitted.evt = "routeChangeComplete"
  /\ sectionHeights(page) = <<>> /\ ~sideNavShown

\* C17 as claimed: the navigation-complete handler requests recalculation of
\* the section index.
CompleteRecalculates ==
  (emitted.evt = "routeChangeComplete" /\ "onRouteCompleteScroll" \in emitted.fns) =>
     "recalculateSectionIndex" \in emitted.calls

\* C17 amended: from a navigation start handled by the container until its
\* completion the rendering flag is true and the main element is not
\* scrollable; the navigation-complete handler resets the scroll offset to
\* the top and clears the rendering flag, and calls nothing else.
RenderingWhileNavigating ==
  [][/\ (nav'.kind = "route" /\ "onRouteStart" \in emitted'.fns) =>
          (rendering' /\ ~mainScrollable')
     /\ (nav.kind = "route" /\ emitted'.evt = "routeChangeComplete"
           /\ "onRouteCompleteScroll" \in emitted'.fns) =>
          /\ scrollTop' = 0 /\ ~rendering' /\ mainScrollable'
          /\ emitted'.calls = {"scrollTo", "setRendering"}]_vars

RenderingWhileNavigatingWitness ==
  /\ nav = NavIdle /\ emitted.evt = "routeChangeComplete"
  /\ "onRouteCompleteScroll" \in emitted.fns
  /\ page = "blog" /\ scrollTop = 0 /\ ~rendering /\ mainScrollable

\* C21: every navigation whose routeChangeStart reached the container's
\* onRouteStart is eventually followed by a state where the rendering flag is
\* false and the main element is scrollable again, whether the navigation
\* completes or ends with routeChangeError.
StartedEventuallyScrollable ==
  (nav.kind = "route" /\ "onRouteStart" \in emitted.fns)
     ~> (~rendering /\ mainScrollable)

====
